---- MODULE Spec2Model ----
(***************************************************************************)
(* A model of src/src/app.py: the Streamlit script of "Chat with MySQL".   *)
(*                                                                         *)
(* The session state (st.session_state.chat_history, st.session_state.db)  *)
(* lives across reruns of the script.  Every rerun is caused by one widget *)
(* event: a click on Connect, or a value returned by st.chat_input.  A     *)
(* rerun that is given a question runs generate_response, whose chain      *)
(* makes, in this order: a schema fetch and a model call (SQL generation), *)
(* then a two-key assign step (schema fetch and database.run), then the    *)
(* second model call (answer synthesis).  Each blocking call is modelled   *)
(* by the step that starts it and the step in which it returns or raises.  *)
(*                                                                         *)
(* Texts are sequences of characters, so that str.strip() is computed.     *)
(*                                                                         *)
(* Widget events are taken while no script run is in progress: one turn at *)
(* a time per session.  An event that arrives during a run is not          *)
(* modelled.                                                               *)
(*                                                                         *)
(* Spec is the script as written, from a fresh session.  There the Connect *)
(* handler always raises, db is never set and no turn gets past line 189.  *)
(* SpecConnected is the turn handler in a session whose state holds a      *)
(* connection, which is the case lines 188-190 and generate_response are   *)
(* written for; the properties of the chain are checked under it.          *)
(***************************************************************************)
EXTENDS Naturals, Sequences, FiniteSets, TLC

VARIABLES
    chat_history,  \* st.session_state.chat_history: sequence of messages
    db,            \* st.session_state.db, or Unset while the key is absent
    connect,       \* outcome of the last Connect click (observation)
    pc,            \* position of the script run in progress, "Idle" between runs
    user_query,    \* value st.chat_input returned to the last rerun
    vars,          \* the dict flowing through response_chain
    schemaT,       \* state of the "schema" step of the second assign
    runT,          \* state of the "response" step of the second assign
    executed,      \* the statement handed to database.run in this turn
    llmInput,      \* the dict the synthesis prompt | llm was invoked with
    response,      \* `response` of line 189: the text generate_response returned
    started,       \* the external calls started in this turn (observation)
    outcome,       \* how the last turn ended (observation)
    pre,           \* chat_history as it was when the turn began (observation)
    failed         \* indices of the Human messages whose turn was aborted

turnvars == <<vars, schemaT, runT, executed, llmInput, response, started, pre>>
allvars == <<chat_history, db, connect, pc, user_query, vars, schemaT, runT,
             executed, llmInput, response, started, outcome, pre, failed>>

-----------------------------------------------------------------------------
(* Bounds and input sets *)

MaxTurns == 3

None == <<"<None>">>
Unset == "<unset>"

\* values st.chat_input can hand to a rerun
ChatInputs ==
    { None, <<>>, <<" ">>, <<" ", " ">>, <<"a">>, <<" ", "b", " ">> }

\* completions the model can return for the SQL prompt and the answer prompt
SqlTexts == { <<"S", "1">>, <<"S", "2">> }
AnswerTexts == { <<"A", "1">>, <<"A", "2">> }
SchemaText == <<"T">>
Greeting == <<"H", "e", "l", "l", "o">>

-----------------------------------------------------------------------------
(* Pure helpers *)

Whitespace == { " ", "\t", "\n" }

RECURSIVE lstrip(_)
lstrip(s) ==
    IF s # <<>> /\ Head(s) \in Whitespace THEN lstrip(Tail(s)) ELSE s

RECURSIVE rstrip(_)
rstrip(s) ==
    IF s # <<>> /\ s[Len(s)] \in Whitespace
    THEN rstrip(SubSeq(s, 1, Len(s) - 1))
    ELSE s

strip(s) == rstrip(lstrip(s))

AIMessage(c) == [type |-> "ai", content |-> c]
HumanMessage(c) == [type |-> "human", content |-> c]

-----------------------------------------------------------------------------
(* Session start: lines 134-137 *)

SeedHistory == << AIMessage(Greeting) >>

\* a step of an assign: where it is, and the value or exception it ended with
Step(state, value) == [state |-> state, value |-> value]

NoVars ==
    [question |-> None, chat_history |-> <<>>, query |-> None,
     schema |-> None, response |-> None]

InitTurn ==
    /\ pc = "Idle"
    /\ user_query = None
    /\ vars = NoVars
    /\ schemaT = Step("idle", None)
    /\ runT = Step("idle", None)
    /\ executed = None
    /\ llmInput = NoVars
    /\ response = None
    /\ started = {}
    /\ outcome = "none"
    /\ pre = <<>>
    /\ failed = {}
    /\ connect = [reachable |-> FALSE, raised |-> "unclicked"]

\* The script as written: the session begins without the key "db".
Init ==
    /\ chat_history = SeedHistory
    /\ db = Unset
    /\ InitTurn

\* A session whose state holds a connection: what lines 188-190 require.
InitConnected ==
    /\ chat_history = SeedHistory
    /\ db = "SQLDatabase"
    /\ InitTurn

-----------------------------------------------------------------------------
(* Connect: lines 12-30 and 157-167 *)

\* the parameters of initialize_database_connection (line 12)
Parameters == {"username", "password", "host", "port", "database_name"}

\* the keywords the Connect handler passes (lines 160-164)
ConnectKeywords == {"user", "password", "host", "port", "database"}

\* A Python call binds keywords to parameters by name and raises TypeError
\* for a keyword that names no parameter; only then does the body run
\* SQLDatabase.from_uri, which connects to the server.
initialize_database_connection(keywords, reachable) ==
    IF keywords # Parameters
    THEN [raised |-> "TypeError", value |-> Unset]
    ELSE IF reachable
         THEN [raised |-> "none", value |-> "SQLDatabase"]
         ELSE [raised |-> "DatabaseError", value |-> Unset]

\* A rerun caused by a click on Connect.  An exception ends the run at
\* line 159, before line 166 assigns st.session_state.db; otherwise the run
\* goes on to a chat_input that returns None.
Connect ==
    /\ pc = "Idle"
    /\ \E reachable \in BOOLEAN :
         LET r == initialize_database_connection(ConnectKeywords, reachable) IN
         /\ db' = IF r.raised = "none" THEN r.value ELSE db
         /\ connect' = [reachable |-> reachable, raised |-> r.raised]
    /\ UNCHANGED <<chat_history, pc, user_query, turnvars, outcome, failed>>

-----------------------------------------------------------------------------
(* The user-turn handler: lines 179-193 *)

\* line 180 without the strip()
StartsTurnNoStrip(q) == q # None /\ q # <<>>

\* line 180
StartsTurn(q) == q # None /\ strip(q) # <<>>

\* insert(0, m) in place of append(m)
PrependMessage(h, m) == <<m>> \o h

\* list.append (lines 181 and 193)
AppendMessage(h, m) == Append(h, m)

NumTurns == Cardinality({ i \in 1..Len(chat_history) : chat_history[i].type = "human" })

\* A rerun whose chat_input value does not pass line 180: the script ends.
Rerun ==
    /\ pc = "Idle"
    /\ \E q \in ChatInputs :
         /\ ~StartsTurn(q)
         /\ user_query' = q
    /\ UNCHANGED <<chat_history, db, connect, pc, turnvars, outcome, failed>>

\* A rerun given a question: line 181, up to the call of line 189.
SubmitQuestion ==
    /\ pc = "Idle"
    /\ NumTurns < MaxTurns
    /\ \E q \in ChatInputs :
         /\ StartsTurn(q)
         /\ user_query' = q
         /\ chat_history' = AppendMessage(chat_history, HumanMessage(q))
    /\ pre' = chat_history
    /\ pc' = "Respond"
    /\ vars' = NoVars
    /\ schemaT' = Step("idle", None)
    /\ runT' = Step("idle", None)
    /\ executed' = None
    /\ llmInput' = NoVars
    /\ response' = None
    /\ started' = {}
    /\ outcome' = "running"
    /\ UNCHANGED <<db, connect, failed>>

\* an except clause that turns the exception into an answer
AbortAnswering(stage) ==
    /\ pc' = "Idle"
    /\ outcome' = stage
    /\ failed' = failed \cup {Len(chat_history)}
    /\ chat_history' = Append(chat_history, AIMessage(<<"E", "r", "r">>))

\* a run that never ends after the exception
AbortStuck(stage) ==
    /\ pc' = "Failed"
    /\ outcome' = stage
    /\ failed' = failed \cup {Len(chat_history)}
    /\ UNCHANGED chat_history

\* An exception raised inside the turn is caught nowhere in the script: it
\* ends the run, so lines 190-193 are skipped and the next event starts a
\* fresh run.
Abort(stage) ==
    /\ pc' = "Idle"
    /\ outcome' = stage
    /\ failed' = failed \cup {Len(chat_history)}
    /\ UNCHANGED chat_history

\* line 189 evaluates st.session_state.db, which raises AttributeError while
\* the key is absent.
DbAttributeError ==
    /\ pc = "Respond"
    /\ db = Unset
    /\ Abort("no_db")
    /\ UNCHANGED <<db, connect, user_query, turnvars>>

-----------------------------------------------------------------------------
(* generate_sql_query_chain: lines 72-81, run as the step query= of line 118 *)

\* StrOutputParser: the text of the model's message
StrOutputParser(message) == message.content

\* Line 189 passes the session's list itself, so the dict of line 128 holds
\* the history with the question already appended.  Line 73 starts
\* database.get_table_info().
StartGenerate ==
    /\ pc = "Respond"
    /\ db # Unset
    /\ vars' = [NoVars EXCEPT !.question = user_query,
                              !.chat_history = chat_history]
    /\ started' = started \cup {"schema_gen"}
    /\ pc' = "GenSchema"
    /\ UNCHANGED <<chat_history, db, connect, user_query, schemaT, runT,
                   executed, llmInput, response, outcome, pre, failed>>

\* get_table_info returns; prompt | llm starts the model call (lines 78-79).
GenSchemaReturn ==
    /\ pc = "GenSchema"
    /\ started' = started \cup {"llm_gen"}
    /\ pc' = "GenLLM"
    /\ UNCHANGED <<chat_history, db, connect, user_query, vars, schemaT, runT,
                   executed, llmInput, response, outcome, pre, failed>>

GenSchemaRaise ==
    /\ pc = "GenSchema"
    /\ Abort("gen_schema_error")
    /\ UNCHANGED <<db, connect, user_query, turnvars>>

\* The model call returns a message; its text becomes vars["query"], and the
\* second assign of lines 118-121 hands its two steps to the executor.
GenLLMReturn ==
    /\ pc = "GenLLM"
    /\ \E s \in SqlTexts :
         vars' = [vars EXCEPT !.query = StrOutputParser([content |-> s])]
    /\ schemaT' = Step("submitted", None)
    /\ runT' = Step("submitted", None)
    /\ pc' = "Assign"
    /\ UNCHANGED <<chat_history, db, connect, user_query, executed, llmInput,
                   response, started, outcome, pre, failed>>

GenLLMRaise ==
    /\ pc = "GenLLM"
    /\ Abort("gen_llm_error")
    /\ UNCHANGED <<db, connect, user_query, turnvars>>

-----------------------------------------------------------------------------
(* The second assign: lines 118-121.  A RunnableParallel submits each of its *)
(* steps to a thread pool and then waits for all of them, so the steps       *)
(* schema= and response= start and end in any order.                         *)

\* database.run(vars["question"]) in place of vars["query"]
StatementOfQuestion(v) == v.question

\* the statement line 120 passes to database.run
Statement(v) == v.query

\* database.run: the result text of the statement, or the engine's exception
RunResult(sql) == <<"r", "o", "w", "s", ":">> \o sql
EngineMessage(sql) == <<"e", "r", "r", ":">> \o sql

SchemaStart ==
    /\ pc = "Assign"
    /\ schemaT.state = "submitted"
    /\ schemaT' = Step("running", None)
    /\ started' = started \cup {"schema_synth"}
    /\ UNCHANGED <<chat_history, db, connect, pc, user_query, vars, runT,
                   executed, llmInput, response, outcome, pre, failed>>

SchemaReturn ==
    /\ pc = "Assign"
    /\ schemaT.state = "running"
    /\ schemaT' = Step("returned", SchemaText)
    /\ UNCHANGED <<chat_history, db, connect, pc, user_query, vars, runT,
                   executed, llmInput, response, started, outcome, pre, failed>>

SchemaRaise ==
    /\ pc = "Assign"
    /\ schemaT.state = "running"
    /\ schemaT' = Step("raised", None)
    /\ UNCHANGED <<chat_history, db, connect, pc, user_query, vars, runT,
                   executed, llmInput, response, started, outcome, pre, failed>>

RunStart ==
    /\ pc = "Assign"
    /\ runT.state = "submitted"
    /\ runT' = Step("running", None)
    /\ executed' = Statement(vars)
    /\ started' = started \cup {"run"}
    /\ UNCHANGED <<chat_history, db, connect, pc, user_query, vars, schemaT,
                   llmInput, response, outcome, pre, failed>>

RunReturn ==
    /\ pc = "Assign"
    /\ runT.state = "running"
    /\ runT' = Step("returned", RunResult(executed))
    /\ UNCHANGED <<chat_history, db, connect, pc, user_query, vars, schemaT,
                   executed, llmInput, response, started, outcome, pre, failed>>

\* The database rejects the statement: database.run raises.
RunRaise ==
    /\ pc = "Assign"
    /\ runT.state = "running"
    /\ runT' = Step("raised", EngineMessage(executed))
    /\ UNCHANGED <<chat_history, db, connect, pc, user_query, vars, schemaT,
                   executed, llmInput, response, started, outcome, pre, failed>>

Ended(t) == t.state \in {"returned", "raised"}

\* Both steps returned: their values join the dict, and prompt | llm of
\* lines 122-123 starts the second model call.
AssignJoin ==
    /\ pc = "Assign"
    /\ schemaT.state = "returned"
    /\ runT.state = "returned"
    /\ vars' = [vars EXCEPT !.schema = schemaT.value, !.response = runT.value]
    /\ llmInput' = vars'
    /\ started' = started \cup {"llm_synth"}
    /\ pc' = "SynthLLM"
    /\ UNCHANGED <<chat_history, db, connect, user_query, schemaT, runT,
                   executed, response, outcome, pre, failed>>

\* A step raised: once both have ended, the exception leaves the chain.
AssignRaise ==
    /\ pc = "Assign"
    /\ Ended(schemaT)
    /\ Ended(runT)
    /\ "raised" \in {schemaT.state, runT.state}
    /\ Abort(IF schemaT.state = "raised" THEN "synth_schema_error" ELSE "exec_error")
    /\ UNCHANGED <<db, connect, user_query, turnvars>>

-----------------------------------------------------------------------------
(* Answer synthesis and the end of the turn: lines 122-131 and 189-193 *)

\* HumanMessage in place of AIMessage at line 193
AppendAnswerAsHuman(h, r) == AppendMessage(h, HumanMessage(r))

\* the answer appended a second time
AppendAnswerTwice(h, r) == AppendMessage(AppendMessage(h, AIMessage(r)), AIMessage(r))

\* line 193
AppendAnswer(h, r) == AppendMessage(h, AIMessage(r))

SynthLLMReturn ==
    /\ pc = "SynthLLM"
    /\ \E a \in AnswerTexts :
         response' = StrOutputParser([content |-> a])
    /\ chat_history' = AppendAnswer(chat_history, response')
    /\ pc' = "Idle"
    /\ outcome' = "answered"
    /\ UNCHANGED <<db, connect, user_query, vars, schemaT, runT, executed,
                   llmInput, started, pre, failed>>

SynthLLMRaise ==
    /\ pc = "SynthLLM"
    /\ Abort("synth_llm_error")
    /\ UNCHANGED <<db, connect, user_query, turnvars>>

-----------------------------------------------------------------------------
(* Specifications *)

\* The script as written.  No step sets db (Connect raises TypeError), so
\* line 189 raises in every turn and the chain never starts.
Next ==
    \/ Connect
    \/ Rerun
    \/ SubmitQuestion
    \/ DbAttributeError

Spec == Init /\ [][Next]_allvars

\* The turn handler in a session that holds a connection.
NextConnected ==
    \/ Connect
    \/ Rerun
    \/ SubmitQuestion
    \/ StartGenerate
    \/ GenSchemaReturn
    \/ GenSchemaRaise
    \/ GenLLMReturn
    \/ GenLLMRaise
    \/ SchemaStart
    \/ SchemaReturn
    \/ SchemaRaise
    \/ RunStart
    \/ RunReturn
    \/ RunRaise
    \/ AssignJoin
    \/ AssignRaise
    \/ SynthLLMReturn
    \/ SynthLLMRaise

SpecConnected == InitConnected /\ [][NextConnected]_allvars

-----------------------------------------------------------------------------
(* Vocabulary of the properties *)

IsPrefix(s, t) == Len(s) <= Len(t) /\ SubSeq(t, 1, Len(s)) = s

Contains(text, part) ==
    \E i \in 0..(Len(text) - Len(part)) : SubSeq(text, i + 1, i + Len(part)) = part

\* absent, empty or only whitespace
IsBlank(q) == q = None \/ \A i \in 1..Len(q) : q[i] \in Whitespace

Failures ==
    {"no_db", "gen_schema_error", "gen_llm_error", "synth_schema_error",
     "exec_error", "synth_llm_error"}

\* the database operations in flight on the session's connection
DbInFlight ==
    (IF pc = "GenSchema" THEN {"schema_gen"} ELSE {})
    \cup (IF schemaT.state = "running" THEN {"schema_synth"} ELSE {})
    \cup (IF runT.state = "running" THEN {"run"} ELSE {})

\* the stage operations in flight: the two model calls and database.run
StagesInFlight ==
    (IF pc = "GenLLM" THEN {"llm_gen"} ELSE {})
    \cup (IF runT.state = "running" THEN {"run"} ELSE {})
    \cup (IF pc = "SynthLLM" THEN {"llm_synth"} ELSE {})

\* the turn that has just ended appended its question and nothing else
OnlyQuestionAppended ==
    chat_history = Append(pre, HumanMessage(vars.question))

\* the turn that has just ended appended its question and then its answer
QuestionAndAnswerAppended ==
    chat_history = pre \o << HumanMessage(vars.question), AIMessage(response) >>

-----------------------------------------------------------------------------
(* Properties *)

\* C1: when database.run raises in a turn, the turn is not aborted: once it
\* has ended, the synthesis model was called with a non-empty result text
\* that contains the engine's message, and the history ends with the
\* Assistant answer.
C1_ExecutionErrorIsAnswered ==
    (pc = "Idle" /\ runT.state = "raised") =>
        /\ outcome = "answered"
        /\ llmInput.response # None
        /\ llmInput.response # <<>>
        /\ Contains(llmInput.response, EngineMessage(executed))
        /\ chat_history[Len(chat_history)] = AIMessage(response)

\* C2: a turn in which a model call raised has ended in failure, its history
\* is the history before the turn followed by the User turn of the question
\* alone, and if the call was the one of SQL generation then database.run
\* was not called in the turn.
C2_ModelFailureAbortsTurn ==
    outcome \in {"gen_llm_error", "synth_llm_error"} =>
        /\ pc = "Idle"
        /\ OnlyQuestionAppended
        /\ chat_history[Len(chat_history)].type = "human"
        /\ outcome = "gen_llm_error" => ("run" \notin started /\ executed = None)

C2_Witness ==
    /\ outcome = "gen_llm_error"
    /\ "llm_gen" \in started
    /\ Len(chat_history) = Len(pre) + 1

\* C3: a turn that failed, at whatever stage, leaves the session Idle with
\* nothing in flight; an Idle session accepts the next question; and a turn
\* that comes after failed turns and whose stages all succeed ends with its
\* User turn and its Assistant answer appended.
C3_FailedTurnDoesNotBlock ==
    /\ outcome \in Failures =>
          (pc = "Idle" /\ DbInFlight = {})
    /\ (pc = "Idle" /\ NumTurns < MaxTurns) => ENABLED SubmitQuestion
    /\ (outcome = "answered" /\ failed # {}) =>
          (pc = "Idle" /\ QuestionAndAnswerAppended)

C3_Witness ==
    /\ outcome = "answered"
    /\ (Len(chat_history) - 2) \in failed
    /\ pc = "Idle"

\* C4: the history is append-only: every step leaves the previous history a
\* prefix of the new one, and the first element is always the seed greeting.
C4_HistoryAppendOnly ==
    /\ chat_history[1] = AIMessage(Greeting)
    /\ [][ /\ IsPrefix(chat_history, chat_history')
           /\ chat_history'[1] = AIMessage(Greeting) ]_allvars

C4_Witness ==
    /\ failed # {}
    /\ outcome = "answered"
    /\ Len(chat_history) >= 4

\* C5: a turn whose three stages succeeded appended exactly two turns: the
\* User turn of the question, then the Assistant turn holding the text the
\* synthesis returned; from the seed-only history the length is then 3.
C5_SuccessfulTurnAppendsTwo ==
    outcome = "answered" =>
        /\ Len(chat_history) = Len(pre) + 2
        /\ IsPrefix(pre, chat_history)
        /\ chat_history[Len(pre) + 1] = HumanMessage(vars.question)
        /\ chat_history[Len(pre) + 2] = AIMessage(response)
        /\ response \in AnswerTexts
        /\ pre = SeedHistory => Len(chat_history) = 3

C5_Witness ==
    /\ outcome = "answered"
    /\ pre = SeedHistory
    /\ Len(chat_history) = 3

\* C6: the stages of a turn (the generation model call, database.run, the
\* synthesis model call) run strictly one after another: at most one of
\* them is in flight, database.run starts only after the generation call
\* has returned, the synthesis call starts only after database.run has
\* returned, the statement run is the generator's text unchanged, and the
\* synthesis receives that statement with the result of running it.
C6_StagesStrictlySequential ==
    /\ Cardinality(StagesInFlight) <= 1
    /\ "run" \in started => (vars.query \in SqlTexts /\ pc # "GenLLM")
    /\ "llm_synth" \in started => runT.state = "returned"
    /\ executed # None => executed = vars.query
    /\ "llm_synth" \in started =>
          /\ llmInput.query = vars.query
          /\ llmInput.query = executed
          /\ llmInput.response = RunResult(executed)

C6_Witness ==
    /\ pc = "SynthLLM"
    /\ "llm_synth" \in started
    /\ executed \in SqlTexts

\* C7: at most one database operation is in flight on the connection.
C7_OneDatabaseOperationInFlight == Cardinality(DbInFlight) <= 1

\* C8: every Assistant turn but the seed directly follows a User turn, and a
\* User turn directly followed by a User turn belongs to a failed turn.
C8_TurnsAlternate ==
    /\ \A i \in 2..Len(chat_history) :
          chat_history[i].type = "ai" => chat_history[i - 1].type = "human"
    /\ \A i \in 1..(Len(chat_history) - 1) :
          (chat_history[i].type = "human" /\ chat_history[i + 1].type = "human")
              => i \in failed

C8_Witness ==
    \E i \in 2..(Len(chat_history) - 2) :
        /\ chat_history[i].type = "human"
        /\ chat_history[i + 1].type = "human"
        /\ chat_history[i + 2].type = "ai"

\* C9: once Connect has been clicked with the parameters of a reachable
\* database, st.session_state.db is set, so that later turns run against it.
C9_ConnectSetsDb ==
    (connect.raised # "unclicked" /\ connect.reachable) => db # Unset

\* C10: a rerun whose chat input is absent, empty or only whitespace starts
\* no turn: it changes neither the history nor the position of the script,
\* and starts no model call, schema fetch or statement.
C10_BlankSubmissionStartsNoTurn ==
    [][ (IsBlank(user_query') /\ user_query' # user_query) =>
            /\ chat_history' = chat_history
            /\ pc' = "Idle"
            /\ started' = started
            /\ DbInFlight' = {}
            /\ outcome' = outcome ]_allvars

C10_Witness ==
    /\ user_query = <<" ", " ">>
    /\ outcome = "answered"
    /\ Len(chat_history) = 3

====
